---- MODULE Spec2Model ----
(***************************************************************************)
(* lightshow.py: a microphone-driven RGB LED strip.  The main thread       *)
(* parses the command line, opens an audio input stream and then reads     *)
(* lines from the terminal; the audio service calls callback() once per    *)
(* block while the stream is open.                                         *)
(*                                                                         *)
(* Numbers.  Amplitudes (amp, noise_thresh, prev_amps) are fixed-point on  *)
(* a grid of 1/SilenceStd, so the literal 1 of `np.std(prev_amps)<1` is    *)
(* SilenceStd grid steps and the floor 1e-9 is the smallest positive grid  *)
(* value Eps.  Normalised values (normalize, curved_norm, norm_amps) are   *)
(* fixed-point on a grid of 1/One and are rounded down to it.  The         *)
(* brightness and the duties are exact fractions <<num, den>>, den > 0,    *)
(* in lowest terms.                                                        *)
(***************************************************************************)
EXTENDS Integers, Sequences, FiniteSets, TLC

VARIABLES pc, args, gain, r, g, b, noise_thresh, prev_amps, norm_amps,
          stream, pwm, calls, out, reset_called, exit_via, fade_steps,
          device_queried, probe

vars == <<pc, args, gain, r, g, b, noise_thresh, prev_amps, norm_amps,
          stream, pwm, calls, out, reset_called, exit_via, fade_steps,
          device_queried, probe>>

(* ------------------------------ bounds --------------------------------- *)

\* longest terminal line the user types
MaxLineLen == 2
\* the gain is kept within args.gain * 2^(+-MaxGainExp)
MaxGainExp == 2
\* a history that is not yet full grows no longer than this
MaxHistory == 3
\* callbacks delivered in fade mode, general specification
MaxFadeBlocks == 2
\* callbacks delivered in fade mode, fade specification
MaxFadeCycle == 1532
\* longest history handed to normalize on its own
MaxProbeLen == 3

(* ----------------------------- constants ------------------------------- *)

RED_PIN   == 16
GREEN_PIN == 20
BLUE_PIN  == 21
Pins == {RED_PIN, GREEN_PIN, BLUE_PIN}

norm_duration == 10000
delay == 300

\* 1e-9 on the amplitude grid
Eps == 1
\* the 1 of np.std(prev_amps)<1 on the amplitude grid
SilenceStd == 1000
\* noise_thresh = 1e9
NoiseInit == 1000000000
\* the 1 of bounded(.., 0, 1) on the grid of normalised values
One == 10

(* ------------------------------ inputs --------------------------------- *)

Ranges == {<<0, 200>>, <<200, 100>>, <<100, 100>>}
Colors == {<<0, 255, 0>>, <<300, 0, 255>>, <<-1, 0, 0>>}
BlockDurations == {150, 5000, 20000}
Gains == {10}

\* np.sum(band) of a block that has signal
Amps == {0, 1500, 3000}
NoSignal == [any |-> FALSE, amp |-> 0]
Blocks == {NoSignal} \cup {[any |-> TRUE, amp |-> a] : a \in Amps}
FadeBlocks == {NoSignal, [any |-> TRUE, amp |-> 1500]}

\* "x" stands for any character other than '+' and '-'
Chars == {"+", "-", "x"}
Lines == {<<"q">>, <<"Q">>} \cup UNION {[1..n -> Chars] : n \in 0..MaxLineLen}
FadeLines == {<<>>}
FadeArgs == [list_devices |-> FALSE, block_duration |-> 5000,
             color |-> <<0, 255, 0>>, gain |-> 10, range |-> <<0, 200>>,
             fade |-> TRUE]

\* arguments of normalize and curved_norm called on their own
ProbeVals == {0, Eps, 1500, 3000, 6000}
ProbeHistories == UNION {[1..n -> {Eps, 1500, 3000}] : n \in 1..MaxProbeLen}
ProbeMargins == {0, 10}

Unset == <<>>
NoProbe == [at |-> "idle", val |-> 0, prev_vals |-> <<Eps>>, margin |-> 0,
            norm |-> 0, curved |-> 0]

(* ------------------------------ helpers -------------------------------- *)

Min(x, y) == IF x <= y THEN x ELSE y
Max(x, y) == IF x >= y THEN x ELSE y
Abs(x) == IF x < 0 THEN -x ELSE x

RECURSIVE GCD(_, _)
GCD(x, y) == IF y = 0 THEN x ELSE GCD(y, x % y)

\* the fraction n/d, d > 0, in lowest terms
Frac(n, d) == LET k == GCD(Abs(n), d) IN <<n \div k, d \div k>>

RECURSIVE Sum(_)
Sum(s) == IF s = <<>> THEN 0 ELSE Head(s) + Sum(Tail(s))

Pow2(n) == 2 ^ n

(* --------------------------- pure functions ---------------------------- *)

\* bounded without its upper clamp
boundedBelow(x, l, h) == Max(l, x)

bounded(x, l, h) == Max(l, Min(h, x))

\* 100 * np.percentile(vals, q), linear interpolation between order statistics
percentile100(vals, q) ==
    LET s == SortSeq(vals, LAMBDA x, y : x < y)
        pos == q * (Len(s) - 1)
        lo == pos \div 100
        fr == pos % 100
    IN IF fr = 0 THEN 100 * s[lo + 1]
       ELSE 100 * s[lo + 1] + fr * (s[lo + 2] - s[lo + 1])

normalize(val, prev_vals, margin) ==
    LET val_max == percentile100(prev_vals, 100 - margin)
        val_min == percentile100(prev_vals, margin * 2)
        val_normed == (One * (100 * val - val_min))
                          \div Max(100 * Eps, val_max - val_min)
    IN bounded(val_normed, 0, One)

curved_norm(val, prev_vals, margin) ==
    LET norm == normalize(val, prev_vals, margin)
    IN bounded(((norm + One \div 10) ^ 6) \div (One ^ 5), 0, One)

\* updateColor adding the step twice
updateColorTwice(color, step) ==
    LET c == color + 2 * step
    IN IF c > 255 THEN 255 ELSE IF c < 0 THEN 0 ELSE c

updateColor(color, step) ==
    LET c == color + step
    IN IF c > 255 THEN 255 ELSE IF c < 0 THEN 0 ELSE c

\* the six branch conditions of fadeStep with cond1 accepting g = 255
fadeCondInclusive(c) ==
    << c[1] = 255 /\ c[3] = 0 /\ c[2] <= 255,
       c[2] = 255 /\ c[3] = 0 /\ c[1] > 0,
       c[1] = 0 /\ c[2] = 255 /\ c[3] < 255,
       c[1] = 0 /\ c[3] = 255 /\ c[2] > 0,
       c[2] = 0 /\ c[3] = 255 /\ c[1] < 255,
       c[1] = 255 /\ c[2] = 0 /\ c[3] > 0 >>

\* the six branch conditions of fadeStep with cond1 not testing b
fadeCondNoBlue(c) ==
    << c[1] = 255 /\ c[2] < 255,
       c[2] = 255 /\ c[3] = 0 /\ c[1] > 0,
       c[1] = 0 /\ c[2] = 255 /\ c[3] < 255,
       c[1] = 0 /\ c[3] = 255 /\ c[2] > 0,
       c[2] = 0 /\ c[3] = 255 /\ c[1] < 255,
       c[1] = 255 /\ c[2] = 0 /\ c[3] > 0 >>

\* the six branch conditions of fadeStep on the colour triple <<r, g, b>>
fadeCond(c) ==
    << c[1] = 255 /\ c[3] = 0 /\ c[2] < 255,
       c[2] = 255 /\ c[3] = 0 /\ c[1] > 0,
       c[1] = 0 /\ c[2] = 255 /\ c[3] < 255,
       c[1] = 0 /\ c[3] = 255 /\ c[2] > 0,
       c[2] = 0 /\ c[3] = 255 /\ c[1] < 255,
       c[1] = 255 /\ c[2] = 0 /\ c[3] > 0 >>

\* fadeStep with the sign of the step of its second branch lost
fadeStepSignSlip(c, steps) ==
    IF fadeCond(c)[1] THEN <<c[1], updateColor(c[2], steps), c[3]>>
    ELSE IF fadeCond(c)[2] THEN <<updateColor(c[1], steps), c[2], c[3]>>
    ELSE IF fadeCond(c)[3] THEN <<c[1], c[2], updateColor(c[3], steps)>>
    ELSE IF fadeCond(c)[4] THEN <<c[1], updateColor(c[2], -steps), c[3]>>
    ELSE IF fadeCond(c)[5] THEN <<updateColor(c[1], steps), c[2], c[3]>>
    ELSE IF fadeCond(c)[6] THEN <<c[1], c[2], updateColor(c[3], -steps)>>
    ELSE c

\* fadeStep on the colour triple <<r, g, b>>
fadeStep(c, steps) ==
    IF fadeCond(c)[1] THEN <<c[1], updateColor(c[2], steps), c[3]>>
    ELSE IF fadeCond(c)[2] THEN <<updateColor(c[1], -steps), c[2], c[3]>>
    ELSE IF fadeCond(c)[3] THEN <<c[1], c[2], updateColor(c[3], steps)>>
    ELSE IF fadeCond(c)[4] THEN <<c[1], updateColor(c[2], -steps), c[3]>>
    ELSE IF fadeCond(c)[5] THEN <<updateColor(c[1], steps), c[2], c[3]>>
    ELSE IF fadeCond(c)[6] THEN <<c[1], c[2], updateColor(c[3], -steps)>>
    ELSE c

\* deque(.., maxlen).append
DequeAppend(dq, x, maxlen) ==
    IF maxlen = 0 THEN dq
    ELSE IF Len(dq) = maxlen THEN Append(Tail(dq), x)
    ELSE Append(dq, x)

PrevMaxlen == norm_duration \div args.block_duration
NormMaxlen == Max(1, delay \div args.block_duration)

\* the callback processing every block
HasSignalAlways(indata) == TRUE

\* any(indata)
HasSignal(indata) == indata.any

\* the noise floor following the latest amplitude
noise_floor_latest(amp, nt) == amp

\* min(amp, noise_thresh)
noise_floor(amp, nt) == Min(amp, nt)

\* np.std(prev_amps) < 1, as  n*sum(x^2) - sum(x)^2 < n^2
StdBelowOne(vals) ==
    LET n == Len(vals)
        sq == [i \in 1..n |-> vals[i] * vals[i]]
    IN n * Sum(sq) - Sum(vals) * Sum(vals) < n * n * SilenceStd * SilenceStd

\* the reseed without its clear()
ReseedNoClear(dq, maxlen) ==
    IF maxlen = 0 THEN dq
    ELSE IF Len(dq) = maxlen THEN Append(Tail(dq), 0)
    ELSE Append(dq, 0)

\* norm_amps.clear(); norm_amps.append(0)
Reseed(dq, maxlen) == DequeAppend(<<>>, 0, maxlen)

\* np.average(norm_amps, weights=np.arange(1, len(norm_amps)+1))
average(vals) ==
    LET n == Len(vals)
        w == [i \in 1..n |-> i]
        wv == [i \in 1..n |-> i * vals[i]]
    IN Frac(Sum(wv), One * Sum(w))

\* channel value times brightness
Times(c, bright) == Frac(c * bright[1], bright[2])

Above255(duty) == duty[1] > 255 * duty[2]

\* setLights clamping to 255 instead of rejecting
setLightsClamp(hw, pin, brightness) ==
    LET v == IF brightness[1] > 255 * brightness[2] THEN <<255, 1>>
             ELSE brightness
    IN [pwm |-> [hw.pwm EXCEPT ![pin] = v],
        calls |-> Append(hw.calls, <<pin, v>>)]

\* setLights on the actuator state hw = [pwm, calls]
setLights(hw, pin, brightness) ==
    IF Above255(brightness) THEN hw
    ELSE [pwm |-> [hw.pwm EXCEPT ![pin] = brightness],
          calls |-> Append(hw.calls, <<pin, brightness>>)]

Zero == <<0, 1>>

reset_lights(hw) ==
    setLights(setLights(setLights(hw, RED_PIN, Zero), GREEN_PIN, Zero),
              BLUE_PIN, Zero)

\* gain *= 2 and gain /= 2 on a fraction in lowest terms
Double(gn) == IF gn[2] % 2 = 0 THEN <<gn[1], gn[2] \div 2>> ELSE <<2 * gn[1], gn[2]>>
\* gain /= 2 written as gain -= 2
HalveAsMinus(gn) == <<gn[1] - 2 * gn[2], gn[2]>>
Halve(gn) == IF gn[1] % 2 = 0 THEN <<gn[1] \div 2, gn[2]>> ELSE <<gn[1], 2 * gn[2]>>

\* for ch in response: ... with its break on any other character
RECURSIVE ForEachChar(_, _)
ForEachChar(gn, response) ==
    IF response = <<>> THEN gn
    ELSE IF Head(response) = "+" THEN ForEachChar(Double(gn), Tail(response))
    ELSE IF Head(response) = "-" THEN ForEachChar(Halve(gn), Tail(response))
    ELSE gn

IsQuit(response) == response \in {<<>>, <<"q">>, <<"Q">>}

\* the range check with < for <=
RangeRejectedStrict(range) == range[2] < range[1]
RangeRejected(range) == range[2] <= range[1]

(* ------------------------------- state --------------------------------- *)

Init ==
    /\ pc = "parse"
    /\ args \in [list_devices : BOOLEAN, block_duration : BlockDurations,
                 color : Colors, gain : Gains, range : Ranges, fade : BOOLEAN]
    /\ gain = <<args.gain, 1>>
    /\ r = 0 /\ g = 0 /\ b = 0
    /\ noise_thresh = NoiseInit
    /\ prev_amps = <<>>
    /\ norm_amps = <<>>
    /\ stream = "none"
    /\ pwm = [p \in Pins |-> Unset]
    /\ calls = <<>>
    /\ out = <<>>
    /\ reset_called = FALSE
    /\ exit_via = "none"
    /\ fade_steps = 0
    /\ device_queried = FALSE
    /\ probe = NoProbe

(* ------------------------------ main thread ---------------------------- *)

\* lines 46-62: parse_args, the range check, the initial colour
ParseArgs ==
    /\ pc = "parse"
    /\ IF RangeRejected(args.range)
       THEN /\ pc' = "exited"
            /\ exit_via' = "usage"
            /\ UNCHANGED <<r, g, b>>
       ELSE /\ pc' = "query"
            /\ r' = (IF args.fade THEN 255 ELSE args.color[1])
            /\ g' = (IF args.fade THEN 0 ELSE args.color[2])
            /\ b' = (IF args.fade THEN 0 ELSE args.color[3])
            /\ UNCHANGED exit_via
    /\ UNCHANGED <<args, gain, noise_thresh, prev_amps, norm_amps, stream,
                   pwm, calls, out, reset_called, fade_steps, device_queried,
                   probe>>

\* lines 132-151: list the devices and exit, or query the device and build
\* the histories
QueryDevices ==
    /\ pc = "query"
    /\ device_queried' = TRUE
    /\ IF args.list_devices
       THEN /\ pc' = "exited"
            /\ exit_via' = "list"
            /\ UNCHANGED <<prev_amps, norm_amps, noise_thresh>>
       ELSE /\ pc' = "open"
            /\ prev_amps' = DequeAppend(<<>>, Eps, PrevMaxlen)
            /\ norm_amps' = <<>>
            /\ noise_thresh' = NoiseInit
            /\ UNCHANGED exit_via
    /\ UNCHANGED <<args, gain, r, g, b, stream, pwm, calls, out, reset_called,
                   fade_steps, probe>>

\* lines 193-196: entering the with block opens and starts the stream
OpenStream ==
    /\ pc = "open"
    /\ pc' = "input"
    /\ stream' = "open"
    /\ UNCHANGED <<args, gain, r, g, b, noise_thresh, prev_amps, norm_amps,
                   pwm, calls, out, reset_called, exit_via, fade_steps,
                   device_queried, probe>>

\* lines 197-209: one pass of the interactive loop on the line read
InputLine(response) ==
    /\ pc = "input"
    /\ IF IsQuit(response)
       THEN /\ pc' = "close"
            /\ UNCHANGED gain
       ELSE /\ pc' = "input"
            /\ gain' = ForEachChar(gain, response)
    /\ UNCHANGED <<args, r, g, b, noise_thresh, prev_amps, norm_amps, stream,
                   pwm, calls, out, reset_called, exit_via, fade_steps,
                   device_queried, probe>>

\* the loop left without the stream being closed
CloseStreamLeavesOpen ==
    /\ pc = "close"
    /\ pc' = "reset"
    /\ UNCHANGED <<args, gain, r, g, b, noise_thresh, prev_amps, norm_amps,
                   stream, pwm, calls, out, reset_called, exit_via,
                   fade_steps, device_queried, probe>>

\* leaving the with block after break closes the stream
CloseStream ==
    /\ pc = "close"
    /\ pc' = "reset"
    /\ stream' = "closed"
    /\ UNCHANGED <<args, gain, r, g, b, noise_thresh, prev_amps, norm_amps,
                   pwm, calls, out, reset_called, exit_via, fade_steps,
                   device_queried, probe>>

\* line 211, then the end of the script
ResetLights ==
    /\ pc = "reset"
    /\ LET hw == reset_lights([pwm |-> pwm, calls |-> <<>>])
       IN /\ pwm' = hw.pwm
          /\ calls' = hw.calls
    /\ reset_called' = TRUE
    /\ pc' = "exited"
    /\ exit_via' = "quit"
    /\ UNCHANGED <<args, gain, r, g, b, noise_thresh, prev_amps, norm_amps,
                   stream, out, fade_steps, device_queried, probe>>

\* an exception inside the try block unwinds the with block (closing an
\* open stream) and runs its handler, which ends in parser.exit: SystemExit
\* is raised there, so the reset_lights() of line 214 is never reached
Raise(kind) ==
    /\ pc \in {"query", "open", "input"}
    /\ pc' = "exited"
    /\ exit_via' = kind
    /\ stream' = (IF stream \in {"open", "aborted"} THEN "closed" ELSE stream)
    /\ UNCHANGED <<args, gain, r, g, b, noise_thresh, prev_amps, norm_amps,
                   pwm, calls, out, reset_called, fade_steps, device_queried,
                   probe>>

\* lines 212-214
KeyboardInterrupt == Raise("interrupt")

\* lines 215-216
UnhandledException == Raise("error")

(* ---------------------------- audio callback --------------------------- *)

\* the state the callback reads and writes, and args.gain
Cur ==
    [r |-> r, g |-> g, b |-> b, fade_steps |-> fade_steps,
     noise_thresh |-> noise_thresh, prev_amps |-> prev_amps,
     norm_amps |-> norm_amps, pwm |-> pwm, calls |-> calls, out |-> out,
     stream |-> stream, gain |-> gain]

\* the callback fading whatever --fade says
CallbackFadesAlways == TRUE

\* line 154: if (args.fade)
CallbackFades == args.fade

\* lines 154-155
fade_part(st) ==
    IF CallbackFades
    THEN LET c == fadeStep(<<st.r, st.g, st.b>>, 1)
         IN [st EXCEPT !.r = c[1], !.g = c[2], !.b = c[3],
                       !.fade_steps = @ + 1]
    ELSE st

\* lines 156-159: the banner opens what this invocation prints; no actuator
\* call of this invocation has been made yet
status_part(st, status) ==
    [st EXCEPT !.out = IF status THEN <<"status">> ELSE <<>>,
               !.calls = <<>>]

\* np.sum(band) scaled by the gain factor
band_amp_gained(st, indata) == (indata.amp * st.gain[1]) \div st.gain[2]

\* lines 161-171: amp = np.sum(band)
band_amp(st, indata) == indata.amp

\* lines 160-191.  With maxlen 0 prev_amps stays empty and np.percentile of
\* an empty history raises inside curved_norm (line 177): the callback ends
\* there and the audio service aborts the stream
block_part(st, indata) ==
    IF HasSignal(indata)
    THEN LET nt == noise_floor(band_amp(st, indata), st.noise_thresh)
             amp == Max(Eps, band_amp(st, indata) - nt)
             pa == DequeAppend(st.prev_amps, amp, PrevMaxlen)
         IN IF pa = <<>>
            THEN [st EXCEPT !.noise_thresh = nt,
                            !.out = Append(@, "exception"),
                            !.stream = "aborted"]
            ELSE LET na1 == DequeAppend(st.norm_amps, curved_norm(amp, pa, 10),
                                        NormMaxlen)
                     na == IF StdBelowOne(pa) THEN Reseed(na1, NormMaxlen)
                           ELSE na1
                     bright == average(na)
                     hw0 == [pwm |-> st.pwm, calls |-> st.calls]
                     hw1 == setLights(hw0, RED_PIN, Times(st.r, bright))
                     hw2 == setLights(hw1, GREEN_PIN, Times(st.g, bright))
                     hw3 == setLights(hw2, BLUE_PIN, Times(st.b, bright))
                 IN [st EXCEPT !.noise_thresh = nt,
                               !.prev_amps = pa,
                               !.norm_amps = na,
                               !.pwm = hw3.pwm,
                               !.calls = hw3.calls,
                               !.out = Append(@, "bar")]
    ELSE [st EXCEPT !.out = Append(@, "no input")]

\* the callback returning after the banner when status is set
callback_result_status_returns(st, indata, status) ==
    IF status THEN status_part(fade_part(st), status)
    ELSE block_part(status_part(fade_part(st), status), indata)

\* lines 153-191, as a function of the state
callback_result(st, indata, status) ==
    block_part(status_part(fade_part(st), status), indata)

\* lines 153-191
callback(indata, status) ==
    /\ stream = "open"
    /\ LET n == callback_result(Cur, indata, status)
       IN /\ r' = n.r /\ g' = n.g /\ b' = n.b
          /\ fade_steps' = n.fade_steps
          /\ noise_thresh' = n.noise_thresh
          /\ prev_amps' = n.prev_amps
          /\ norm_amps' = n.norm_amps
          /\ pwm' = n.pwm
          /\ calls' = n.calls
          /\ out' = n.out
          /\ stream' = n.stream
          /\ gain' = n.gain
    /\ UNCHANGED <<pc, args, reset_called, exit_via, device_queried, probe>>

(* ----------------- normalize and curved_norm on their own -------------- *)

ProbeNormalize ==
    /\ probe.at = "call"
    /\ probe' = [probe EXCEPT
                     !.norm = normalize(probe.val, probe.prev_vals, probe.margin),
                     !.at = "normalized"]
    /\ UNCHANGED <<pc, args, gain, r, g, b, noise_thresh, prev_amps,
                   norm_amps, stream, pwm, calls, out, reset_called, exit_via,
                   fade_steps, device_queried>>

ProbeCurvedNorm ==
    /\ probe.at = "normalized"
    /\ probe' = [probe EXCEPT
                     !.curved = curved_norm(probe.val, probe.prev_vals,
                                            probe.margin),
                     !.at = "done"]
    /\ UNCHANGED <<pc, args, gain, r, g, b, noise_thresh, prev_amps,
                   norm_amps, stream, pwm, calls, out, reset_called, exit_via,
                   fade_steps, device_queried>>

(* --------------------------- specifications ---------------------------- *)

\* the bounds of the model: a history that can still grow stays short, the
\* gain stays within a few doublings, a fade advances a few blocks
HistoryBound(indata) ==
    HasSignal(indata) =>
        (Len(prev_amps) < MaxHistory \/ Len(prev_amps) = PrevMaxlen)

GainBound(response) ==
    LET gn == ForEachChar(gain, response)
    IN /\ gn[1] <= args.gain * Pow2(MaxGainExp)
       /\ gn[2] <= Pow2(MaxGainExp)

Deliver ==
    \E indata \in Blocks, status \in BOOLEAN :
        /\ HistoryBound(indata)
        /\ args.fade => fade_steps < MaxFadeBlocks
        /\ callback(indata, status)

ReadLine ==
    \E response \in Lines : GainBound(response) /\ InputLine(response)

Next ==
    \/ ParseArgs
    \/ QueryDevices
    \/ OpenStream
    \/ ReadLine
    \/ CloseStream
    \/ ResetLights
    \/ KeyboardInterrupt
    \/ UnhandledException
    \/ Deliver

Spec == Init /\ [][Next]_vars

\* fade mode through more than one full turn of the colour wheel
InitFade == Init /\ args = FadeArgs

FadeDeliver ==
    \E indata \in FadeBlocks :
        /\ fade_steps < MaxFadeCycle
        /\ callback(indata, FALSE)

FadeReadLine == \E response \in FadeLines : InputLine(response)

NextFade ==
    \/ ParseArgs
    \/ QueryDevices
    \/ OpenStream
    \/ FadeReadLine
    \/ CloseStream
    \/ ResetLights
    \/ KeyboardInterrupt
    \/ UnhandledException
    \/ FadeDeliver

SpecFade == InitFade /\ [][NextFade]_vars

\* normalize and curved_norm applied to arguments drawn from bounded sets
InitNorm ==
    /\ pc = "parse"
    /\ args = FadeArgs
    /\ gain = <<args.gain, 1>>
    /\ r = 0 /\ g = 0 /\ b = 0
    /\ noise_thresh = NoiseInit
    /\ prev_amps = <<>>
    /\ norm_amps = <<>>
    /\ stream = "none"
    /\ pwm = [p \in Pins |-> Unset]
    /\ calls = <<>>
    /\ out = <<>>
    /\ reset_called = FALSE
    /\ exit_via = "none"
    /\ fade_steps = 0
    /\ device_queried = FALSE
    /\ probe \in [at : {"call"}, val : ProbeVals, prev_vals : ProbeHistories,
                  margin : ProbeMargins, norm : {0}, curved : {0}]

NextNorm == ProbeNormalize \/ ProbeCurvedNorm

SpecNorm == InitNorm /\ [][NextNorm]_vars

(* ------------------------------- claims -------------------------------- *)

\* the latest callback processed a block with signal, and reset_lights has
\* not run since
Processed == out # <<>> /\ out[Len(out)] = "bar" /\ ~reset_called

\* the duty the latest callback computed for channel value c
Duty(c) == Times(c, average(norm_amps))

PinOf == <<RED_PIN, GREEN_PIN, BLUE_PIN>>
Colour == <<r, g, b>>

\* C1: once the stream has been opened, the process never exits without
\* reset_lights having been invoked, whichever way it exits (quit line,
\* keyboard interrupt, unhandled exception).
C1_ResetOnEveryExit ==
    (pc = "exited" /\ stream = "closed") => reset_called

\* C2: in fade mode the colour is (255,0,0) again after exactly 255*6
\* advances of fadeStep(1), and at no number of advances in between.
C2_FadeCycle ==
    args.fade =>
        /\ (fade_steps >= 1 /\ fade_steps < 255 * 6) => Colour # <<255, 0, 0>>
        /\ fade_steps = 255 * 6 => Colour = <<255, 0, 0>>

C2_Witness == args.fade /\ fade_steps = 255 * 6 /\ Colour = <<255, 0, 0>>

\* C3: after a processed block, a channel whose computed duty is above 255
\* has no actuator call (in particular none with 255), and every other
\* channel has exactly its own call with its computed duty, in channel order.
C3_DutyGuard ==
    Processed =>
        LET sent == {ch \in 1..3 : ~Above255(Duty(Colour[ch]))}
        IN /\ Len(calls) = Cardinality(sent)
           /\ \A ch \in 1..3 :
                IF ch \in sent
                THEN /\ \E i \in 1..Len(calls) :
                            calls[i] = <<PinOf[ch], Duty(Colour[ch])>>
                     /\ pwm[PinOf[ch]] = Duty(Colour[ch])
                ELSE \A i \in 1..Len(calls) : calls[i][1] # PinOf[ch]

C3_Witness ==
    /\ Processed
    /\ Above255(Duty(r))
    /\ calls = <<<<GREEN_PIN, Zero>>, <<BLUE_PIN, <<255, 1>>>>>>

\* C4: every duty written to the actuator lies in [0,255].
C4_DutyInRange ==
    \A p \in Pins :
        pwm[p] # Unset => (0 <= pwm[p][1] /\ pwm[p][1] <= 255 * pwm[p][2])

\* C5: after a processed block that leaves the standard deviation of
\* prev_amps below 1, norm_amps is exactly [0], the brightness is 0 and the
\* three calls of the block carry duty 0.
C5_Silence ==
    (Processed /\ StdBelowOne(prev_amps)) =>
        /\ norm_amps = <<0>>
        /\ average(norm_amps) = Zero
        /\ calls = <<<<RED_PIN, Zero>>, <<GREEN_PIN, Zero>>, <<BLUE_PIN, Zero>>>>

C5_Witness ==
    /\ Processed
    /\ StdBelowOne(prev_amps)
    /\ prev_amps = <<1500, 1500>>
    /\ calls = <<<<RED_PIN, Zero>>, <<GREEN_PIN, Zero>>, <<BLUE_PIN, Zero>>>>

\* C6: a callback on an all-zero block prints 'no input', makes no actuator
\* call and leaves noise_thresh, prev_amps, norm_amps and the actuator
\* unchanged.
C6_NoSignalSkipped ==
    [][\A status \in BOOLEAN :
          callback(NoSignal, status) =>
              /\ out'[Len(out')] = "no input"
              /\ calls' = <<>>
              /\ UNCHANGED <<noise_thresh, prev_amps, norm_amps, pwm>>]_vars

C6_Witness ==
    /\ out # <<>> /\ out[Len(out)] = "no input"
    /\ calls = <<>>
    /\ Len(prev_amps) >= 2
    /\ pwm[BLUE_PIN] = <<255, 1>>

\* C7: noise_thresh never increases, and a processed block leaves it at the
\* minimum of its previous value and the block's amplitude.
C7_NoiseFloor ==
    /\ [][noise_thresh' <= noise_thresh]_vars
    /\ [](stream = "open" =>
            \A indata \in Blocks, status \in BOOLEAN :
                indata.any =>
                    callback_result(Cur, indata, status).noise_thresh
                        = Min(noise_thresh, indata.amp))

C7_Witness ==
    /\ Processed
    /\ noise_thresh = 0
    /\ prev_amps[Len(prev_amps)] = 3000

\* C8: normalize and curved_norm return a value in [0,1] for every value and
\* every history of length >= 1, a flat history included.
C8_NormalizedRange ==
    /\ probe.at \in {"normalized", "done"} =>
           (0 <= probe.norm /\ probe.norm <= One)
    /\ probe.at = "done" => (0 <= probe.curved /\ probe.curved <= One)

C8_Witness ==
    /\ probe.at = "done"
    /\ probe.prev_vals = <<1500, 1500>>
    /\ probe.val = 3000
    /\ probe.norm = One
    /\ probe.curved = One

\* C9: with high <= low the program exits with a usage error and never
\* queries the audio device, opens a stream, runs a callback or calls the
\* actuator.
C9_RangeValidation ==
    args.range[2] <= args.range[1] =>
        /\ pc \in {"parse", "exited"}
        /\ pc = "exited" => exit_via = "usage"
        /\ ~device_queried
        /\ stream = "none"
        /\ out = <<>> /\ calls = <<>> /\ fade_steps = 0
        /\ \A p \in Pins : pwm[p] = Unset

C9_Witness ==
    /\ args.range = <<200, 100>>
    /\ pc = "exited"
    /\ exit_via = "usage"

\* the number of characters of response equal to ch
RECURSIVE CountChar(_, _)
CountChar(response, ch) ==
    IF response = <<>> THEN 0
    ELSE (IF Head(response) = ch THEN 1 ELSE 0) + CountChar(Tail(response), ch)

\* new = old * 2^k as fractions
ScaledBy(new, old, k) ==
    IF k >= 0 THEN new[1] * old[2] = old[1] * Pow2(k) * new[2]
    ELSE new[1] * old[2] * Pow2(-k) = old[1] * new[2]

\* C10: a line of p '+' and m '-' and nothing else leaves the stream as it
\* is (running, unless a callback ended it) and the loop reading, and
\* multiplies the gain by 2^(p-m).
C10_GainAdjust ==
    [][\A response \in Lines :
          (/\ response # <<>>
           /\ \A i \in 1..Len(response) : response[i] \in {"+", "-"}
           /\ InputLine(response)) =>
              /\ stream' = stream
              /\ pc' = "input"
              /\ ScaledBy(gain', gain,
                          CountChar(response, "+") - CountChar(response, "-"))]_vars

C10_Witness ==
    /\ pc = "input"
    /\ stream = "open"
    /\ gain = <<4 * args.gain, 1>>

\* the corner colours of the wheel in the order R, Y, G, C, B, M
Corners == << <<255, 0, 0>>, <<255, 255, 0>>, <<0, 255, 0>>,
              <<0, 255, 255>>, <<0, 0, 255>>, <<255, 0, 255>> >>

\* C11: in fade mode the colour is at the corners R, Y, G, C, B, M, R in
\* this order, each exactly 255 advances after the previous one, and at no
\* corner in between.
C11_WheelOrder ==
    (args.fade /\ pc # "parse") =>
        /\ fade_steps % 255 = 0 =>
               Colour = Corners[((fade_steps \div 255) % 6) + 1]
        /\ (\E i \in 1..6 : Colour = Corners[i]) => fade_steps % 255 = 0

C11_Witness ==
    args.fade /\ fade_steps = 5 * 255 /\ Colour = <<255, 0, 255>>

\* C15: in every colour reached in fade mode exactly one of the six branch
\* conditions of fadeStep is true, and every callback, with or without
\* signal in its block, changes exactly one channel by exactly 1.
C15_OneBranch ==
    /\ [](args.fade /\ pc # "parse" =>
            Cardinality({i \in 1..6 : fadeCond(Colour)[i]}) = 1)
    /\ [][(args.fade /\ fade_steps' # fade_steps) =>
            Abs(r' - r) + Abs(g' - g) + Abs(b' - b) = 1]_vars

C15_Witness ==
    /\ args.fade
    /\ Colour = <<255, 255, 0>>
    /\ fade_steps = 255
    /\ out = <<"no input">>

\* C16: in every colour reached in fade mode each channel is in 0..255, at
\* least one channel is 255 and at least one is 0.
C16_PinnedChannels ==
    (args.fade /\ pc # "parse") =>
        /\ \A ch \in 1..3 : Colour[ch] \in 0..255
        /\ \E ch \in 1..3 : Colour[ch] = 255
        /\ \E ch \in 1..3 : Colour[ch] = 0

C16_Witness ==
    args.fade /\ Colour = <<0, 128, 255>> /\ fade_steps = 3 * 255 + 127

\* the histories exist: lines 149-150 have run
HistoriesBuilt == pc = "open" \/ stream # "none"

\* C12: once built, prev_amps always holds at least 1 and at most
\* int(10000 / block_duration) entries (an append to a full history evicts
\* the oldest one).
C12_HistoryLength ==
    HistoriesBuilt =>
        (Len(prev_amps) >= 1 /\ Len(prev_amps) <= PrevMaxlen)

\* the colour has been assigned: lines 59-62 have run
ColourAssigned == pc # "parse" /\ exit_via # "usage"

\* C13: without --fade the colour is the --color triple in every state, so
\* a processed block computes channel value times brightness for each
\* channel, and a channel configured as 0 is only ever written duty 0.
C13_FixedColour ==
    (~args.fade /\ ColourAssigned) =>
        /\ Colour = args.color
        /\ \A ch \in 1..3 :
             /\ args.color[ch] = 0 => pwm[PinOf[ch]] \in {Unset, Zero}
             /\ Processed =>
                  LET d == Times(args.color[ch], average(norm_amps))
                  IN /\ ~Above255(d) =>
                          /\ pwm[PinOf[ch]] = d
                          /\ \E i \in 1..Len(calls) : calls[i] = <<PinOf[ch], d>>
                     /\ args.color[ch] = 0 => d = Zero

C13_Witness ==
    /\ ~args.fade
    /\ args.color = <<0, 255, 0>>
    /\ Processed
    /\ pwm = (RED_PIN :> Zero) @@ (GREEN_PIN :> <<255, 1>>) @@ (BLUE_PIN :> Zero)

\* C14: a block delivered with a status flag is processed as the same block
\* without one: every variable but the printed output ends the same, the
\* output is the same with the banner in front, and the stream is left
\* as the block without the flag leaves it.
C14_StatusNonFatal ==
    stream = "open" =>
        \A indata \in Blocks :
            LET with == callback_result(Cur, indata, TRUE)
                without == callback_result(Cur, indata, FALSE)
            IN /\ with.out = <<"status">> \o without.out
               /\ with.stream = without.stream
               /\ [with EXCEPT !.out = without.out] = without

C14_Witness ==
    /\ stream = "open"
    /\ out = <<"status", "bar">>
    /\ pwm[GREEN_PIN] = <<255, 1>>

\* C17: once reset_lights has run on the quit path the stream is closed and
\* stays closed and every channel holds duty 0 for good: no callback writes
\* after the reset.
C17_ResetIsLast ==
    reset_called =>
        /\ exit_via = "quit"
        /\ stream = "closed"
        /\ \A p \in Pins : pwm[p] = Zero
        /\ calls = <<<<RED_PIN, Zero>>, <<GREEN_PIN, Zero>>, <<BLUE_PIN, Zero>>>>

C17_Witness ==
    /\ reset_called
    /\ args.color = <<0, 255, 0>>
    /\ ~args.fade
    /\ out = <<"bar">>
    /\ norm_amps = <<One>>
    /\ pwm[GREEN_PIN] = Zero

\* C18: no callback raises, and whenever the brightness has been computed
\* norm_amps holds at least 1 and at most max(1, int(300 / block_duration))
\* entries.
C18_BrightnessDefined ==
    /\ \A i \in 1..Len(out) : out[i] # "exception"
    /\ Processed => (Len(norm_amps) >= 1 /\ Len(norm_amps) <= NormMaxlen)

\* gains a second run may be at
OtherGains == {<<1, 1>>, <<3, 2>>}

\* C19: the callback's effect on the colour, the noise floor, the histories,
\* the actuator, the output and the stream is the same whatever the gain,
\* and no step that changes the gain changes any of them.
C19_GainNoInfluence ==
    /\ [](stream = "open" =>
            \A indata \in Blocks, status \in BOOLEAN, gn \in OtherGains :
                LET mine == callback_result(Cur, indata, status)
                    other == callback_result([Cur EXCEPT !.gain = gn],
                                             indata, status)
                IN [other EXCEPT !.gain = mine.gain] = mine)
    /\ [][gain' # gain =>
            UNCHANGED <<r, g, b, fade_steps, noise_thresh, prev_amps,
                        norm_amps, pwm, calls, out, stream>>]_vars

C19_Witness ==
    /\ stream = "open"
    /\ gain = <<4 * args.gain, 1>>
    /\ Processed
    /\ pwm[GREEN_PIN] = <<255, 1>>

====
